---- MODULE Spec2Model ----
(***************************************************************************)
(* fetchSSE: a Server-Sent Events client over fetch().  The model follows  *)
(* src/unnamed/part_000 (the library source, src/index.js of the build):   *)
(* the closure state of one fetchSSE() call, the sse object, the frame     *)
(* parser, the retry policy and the promise / timer callbacks, each        *)
(* callback being one atomic step of the single-threaded event loop.       *)
(*                                                                         *)
(* Text is a sequence of one-character strings; indices are 0-based as in  *)
(* JavaScript (slice, indexOf).  The url is taken to be absolute, so that  *)
(* new URL(url).origin in dispatchEvent succeeds.                          *)
(***************************************************************************)
EXTENDS Integers, Sequences, FiniteSets, TLC

\* ------------------------------------------------------------- bounds
MaxRequests == 4        \* requests issued in one behaviour
MaxRetriesBound == 2    \* largest finite maxRetries option explored
MaxListeners == 1       \* listener registrations alive at one time
MaxLines == 3           \* lines of a generated frame

\* ------------------------------------------------- program constants
retryDelay == 3000      \* options.retryDelay, the default
CONNECTING == 0
OPEN == 1
CLOSED == 2
Infinity == 1000000     \* default maxRetries: larger than any retry count

\* --------------------------------------------------------------- text
Null == <<"null">>      \* JavaScript null where a string may stand
MESSAGE == <<"m","e","s","s","a","g","e">>
ERROR == <<"e","r","r","o","r">>
OPENEV == <<"o","p","e","n">>
EVENT == <<"e","v","e","n","t">>
DATA == <<"d","a","t","a">>
ID == <<"i","d">>
RETRY == <<"r","e","t","r","y">>
NL == <<"\n">>

WhiteSpace == {" ", "\t", "\r", "\n"}
Digits == {"0","1","2","3","4","5","6","7","8","9"}

DigitVal(c) ==
  CASE c = "0" -> 0 [] c = "1" -> 1 [] c = "2" -> 2 [] c = "3" -> 3
    [] c = "4" -> 4 [] c = "5" -> 5 [] c = "6" -> 6 [] c = "7" -> 7
    [] c = "8" -> 8 [] c = "9" -> 9

\* String.prototype.slice(from, to) and slice(from), 0-based, to exclusive
slice(s, from, to) == SubSeq(s, from + 1, to)
sliceFrom(s, from) == SubSeq(s, from + 1, Len(s))

\* String.prototype.indexOf for a one-character pattern; -1 when absent
indexOf(s, c) ==
  IF \E i \in 1..Len(s) : s[i] = c
  THEN (CHOOSE i \in 1..Len(s) : s[i] = c /\ \A j \in 1..(i-1) : s[j] # c) - 1
  ELSE -1

\* buffer.indexOf('\n\n')
indexOfBoundary(s) ==
  IF \E i \in 1..(Len(s)-1) : s[i] = "\n" /\ s[i+1] = "\n"
  THEN (CHOOSE i \in 1..(Len(s)-1) :
          /\ s[i] = "\n" /\ s[i+1] = "\n"
          /\ \A j \in 1..(i-1) : ~(s[j] = "\n" /\ s[j+1] = "\n")) - 1
  ELSE -1

RECURSIVE trimStart(_)
trimStart(s) ==
  IF s # <<>> /\ Head(s) \in WhiteSpace THEN trimStart(Tail(s)) ELSE s

RECURSIVE trimEnd(_)
trimEnd(s) ==
  IF s # <<>> /\ s[Len(s)] \in WhiteSpace
  THEN trimEnd(SubSeq(s, 1, Len(s) - 1)) ELSE s

\* String.prototype.trim: white space removed at both ends
trim(s) == trimEnd(trimStart(s))

\* eventData.split('\n')
RECURSIVE split(_)
split(s) ==
  LET i == indexOf(s, "\n")
  IN  IF i = -1 THEN <<s>> ELSE <<slice(s, 0, i)>> \o split(sliceFrom(s, i + 1))

\* the decimal digits at the head of s, as a number (acc: value so far)
RECURSIVE digitsValue(_, _)
digitsValue(s, acc) ==
  IF s # <<>> /\ Head(s) \in Digits
  THEN digitsValue(Tail(s), (acc * 10 + DigitVal(Head(s))) % 1000)
  ELSE acc

\* parseInt(value, 10): <<n>> for a number, <<>> for NaN.  Leading white
\* space and one sign are skipped, text after the digits is ignored.
parseInt(value) ==
  LET t == trimStart(value)
      neg == t # <<>> /\ Head(t) = "-"
      u == IF t # <<>> /\ Head(t) \in {"-", "+"} THEN Tail(t) ELSE t
  IN  IF u # <<>> /\ Head(u) \in Digits
      THEN <<(IF neg THEN -1 ELSE 1) * digitsValue(u, 0)>>
      ELSE <<>>

\* one iteration of eventParts.forEach in parseSSEEvent
parseLine(acc, part) ==
  LET colonIndex == indexOf(part, ":")
      key == trim(slice(part, 0, colonIndex))
      value == trim(sliceFrom(part, colonIndex + 1))
  IN  IF colonIndex = -1 THEN acc
      ELSE CASE key = EVENT -> [acc EXCEPT !.eventName = value]
             [] key = DATA ->
                  [acc EXCEPT !.eventDataString =
                     @ \o (IF @ # <<>> THEN NL ELSE <<>>) \o value]
             [] key = ID -> [acc EXCEPT !.eventId = value]
             [] key = RETRY ->
                  IF parseInt(value) # <<>>
                  THEN [acc EXCEPT !.retry = parseInt(value)] ELSE acc
             [] OTHER -> acc

RECURSIVE parseLines(_, _)
parseLines(acc, parts) ==
  IF parts = <<>> THEN acc
  ELSE parseLines(parseLine(acc, Head(parts)), Tail(parts))

\* parseSSEEvent(eventData): retry is <<>> for null, <<n>> for a number
parseSSEEvent(eventData) ==
  parseLines([eventName |-> MESSAGE, eventDataString |-> <<>>,
              eventId |-> Null, retry |-> <<>>],
             split(eventData))

\* ------------------------------------------------------------ state
VARIABLES
  maxRetries,         \* options.maxRetries
  customRetryLogic,   \* options.customRetryLogic: "null" or the caller's function
  readyState,         \* sse.readyState
  isClosed,
  retryCount,
  lastEventId,        \* Null or text
  currentRetryDelay,
  retryTimeout,       \* the pending timer: <<>> none, <<d>> armed with delay d
  abortController,    \* attempt whose controller is held, 0 for null
  reader,             \* attempt whose body reader is held, 0 for null
  listeners,          \* sse.listeners: event type -> sequence of callbacks
  onmessage, onerror, onopen,   \* primary handlers: "null" or a callback
  buffer,             \* text kept by the read loop of the current response
  fetchState,         \* the fetch() promise: "none", "inflight", "aborted"
  requests,           \* requests issued so far; the latest is attempt `requests`
  lastHeader,         \* Last-Event-ID header of the latest request, Null if absent
  openStreams,        \* attempts whose response body is neither ended, failed nor cancelled
  readPending,        \* attempt with a reader.read() promise pending, 0 if none
  out,                \* callbacks invoked during the latest step, in order
  thrown,             \* an exception escaped the latest step (unhandled rejection)
  closedBy,           \* "", "caller" or "policy": who first closed the connection
  everOpened,         \* some response reached OPEN
  reclosed,           \* close() was called on an already closed connection
  idWritten,          \* the id most recently written by a frame or setLastEventId
  retryDirective,     \* the latest numeric retry directive received: <<>> or <<n>>
  asked,              \* arguments customRetryLogic was called with during the latest step
  chunkIn,            \* the chunk most recently given to the read callback
  streamIn            \* text the current response body has delivered (chunked streams)

vars == <<maxRetries, customRetryLogic, readyState, isClosed, retryCount,
          lastEventId, currentRetryDelay, retryTimeout, abortController,
          reader, listeners, onmessage, onerror, onopen, buffer, fetchState,
          requests, lastHeader, openStreams, readPending, out, thrown,
          closedBy, everOpened, reclosed, idWritten, retryDirective, asked,
          chunkIn, streamIn>>

\* the state as one value, threaded through the synchronous calls of a step
St ==
  [readyState |-> readyState, isClosed |-> isClosed, retryCount |-> retryCount,
   lastEventId |-> lastEventId, currentRetryDelay |-> currentRetryDelay,
   retryTimeout |-> retryTimeout, abortController |-> abortController,
   reader |-> reader, listeners |-> listeners, onmessage |-> onmessage,
   onerror |-> onerror, onopen |-> onopen, buffer |-> buffer,
   fetchState |-> fetchState, requests |-> requests, lastHeader |-> lastHeader,
   openStreams |-> openStreams, readPending |-> readPending,
   out |-> <<>>, thrown |-> FALSE, closedBy |-> closedBy,
   everOpened |-> everOpened, reclosed |-> reclosed,
   idWritten |-> idWritten, retryDirective |-> retryDirective,
   asked |-> <<>>]

\* the state a step ends in
Becomes(s) ==
  /\ readyState' = s.readyState /\ isClosed' = s.isClosed
  /\ retryCount' = s.retryCount /\ lastEventId' = s.lastEventId
  /\ currentRetryDelay' = s.currentRetryDelay /\ retryTimeout' = s.retryTimeout
  /\ abortController' = s.abortController /\ reader' = s.reader
  /\ listeners' = s.listeners /\ onmessage' = s.onmessage
  /\ onerror' = s.onerror /\ onopen' = s.onopen /\ buffer' = s.buffer
  /\ fetchState' = s.fetchState /\ requests' = s.requests
  /\ lastHeader' = s.lastHeader /\ openStreams' = s.openStreams
  /\ readPending' = s.readPending /\ out' = s.out /\ thrown' = s.thrown
  /\ closedBy' = s.closedBy /\ everOpened' = s.everOpened
  /\ reclosed' = s.reclosed
  /\ idWritten' = s.idWritten /\ retryDirective' = s.retryDirective
  /\ asked' = s.asked
  /\ UNCHANGED <<maxRetries, customRetryLogic>>

\* a step of anything but the read callback of a chunk
Step(s) == Becomes(s) /\ UNCHANGED <<chunkIn, streamIn>>

NoListeners == [t \in {} |-> <<>>]

\* ------------------------------------------------------- the sse object
\* mutant: close() raises when the connection is already closed
closeRaisesWhenClosed(s) ==
  IF s.isClosed THEN [s EXCEPT !.thrown = TRUE]
  ELSE [s EXCEPT !.isClosed = TRUE, !.readyState = CLOSED,
                 !.retryTimeout = <<>>,
                 !.fetchState = IF s.abortController # 0 /\ @ = "inflight"
                                THEN "aborted" ELSE @,
                 !.openStreams = @ \ {s.abortController, s.reader},
                 !.listeners = [t \in {} |-> <<>>]]

\* mutant: close() does not abort the request in flight
closeWithoutAbort(s) ==
  [s EXCEPT !.isClosed = TRUE, !.readyState = CLOSED,
            !.retryTimeout = <<>>,
            !.openStreams = @ \ {s.reader},
            !.listeners = [t \in {} |-> <<>>]]

\* close(): also what abort() and reader.cancel() do to the transport
close(s) ==
  [s EXCEPT !.isClosed = TRUE,
            !.readyState = CLOSED,
            !.retryTimeout = <<>>,
            !.fetchState = IF s.abortController # 0 /\ @ = "inflight"
                           THEN "aborted" ELSE @,
            !.openStreams = @ \ {s.abortController, s.reader},
            !.listeners = NoListeners]

\* a callback of the caller runs: it returns, it throws, or it calls close();
\* recorded with the event it is given and with what sse.readyState and
\* sse.getLastEventId() are while it runs
invoke(s, cb, e) ==
  LET s1 == [s EXCEPT !.out = Append(@, [cb |-> cb, type |-> e.type,
                                         data |-> e.data,
                                         lastEventId |-> e.lastEventId,
                                         readyState |-> s.readyState,
                                         getLastEventId |-> s.lastEventId])]
  IN  CASE cb = "throw" -> [s1 EXCEPT !.thrown = TRUE]
        [] cb = "close" ->
             [close(s1) EXCEPT !.closedBy = IF @ = "" THEN "caller" ELSE @,
                               !.reclosed = @ \/ s1.isClosed]
        [] OTHER -> s1

\* for (const cb of callbacks) cb(eventObject): an exception ends the loop
RECURSIVE invokeAll(_, _, _)
invokeAll(s, callbacks, e) ==
  IF callbacks = <<>> \/ s.thrown THEN s
  ELSE invokeAll(invoke(s, Head(callbacks), e), Tail(callbacks), e)

dispatchEvent(s, event, data, eventId) ==
  LET e == [type |-> event, data |-> data, lastEventId |-> eventId]
      callbacks == IF event \in DOMAIN s.listeners THEN s.listeners[event]
                   ELSE <<>>
      s1 == invokeAll(s, callbacks, e)
  IN  IF s1.thrown THEN s1
      ELSE IF event = MESSAGE /\ s1.onmessage # "null"
             THEN invoke(s1, s1.onmessage, e)
      ELSE IF event = ERROR /\ s1.onerror # "null"
             THEN invoke(s1, s1.onerror, e)
      ELSE IF event = OPENEV /\ s1.onopen # "null"
             THEN invoke(s1, s1.onopen, e)
      ELSE s1

\* ---------------------------------------------------------- retry policy
TerminalStatuses == {400, 401, 403, 404, 410}

\* error.status: 0 (falsy, for undefined) when the object has no such field
statusOf(error) == IF "status" \in DOMAIN error THEN error.status ELSE 0

\* the caller's customRetryLogic(error, retryCount)
custom(error, count) == customRetryLogic = "always"

\* mutant: the retry budget is checked before the caller's function is asked
shouldRetryBudgetFirst(s, error) ==
  IF s.retryCount >= maxRetries THEN FALSE
  ELSE IF customRetryLogic # "null" THEN custom(error, s.retryCount)
  ELSE ~(statusOf(error) # 0 /\ statusOf(error) \in TerminalStatuses)

shouldRetry(s, error) ==
  IF customRetryLogic # "null" THEN custom(error, s.retryCount)
  ELSE IF s.retryCount >= maxRetries THEN FALSE
  ELSE IF statusOf(error) # 0 /\ statusOf(error) \in TerminalStatuses THEN FALSE
  ELSE TRUE

\* mutant: the timer is armed with the configured delay
scheduleReconnectDefaultDelay(s) ==
  IF s.isClosed THEN s
  ELSE LET retryError == [retryCount |-> s.retryCount,
                          lastError |-> "Connection lost"]
           s1 == [s EXCEPT !.retryTimeout = <<>>,
                           !.asked = IF customRetryLogic # "null"
                                     THEN Append(@, [error |-> retryError,
                                                     retryCount |-> s.retryCount])
                                     ELSE @]
       IN  IF ~shouldRetry(s1, retryError)
           THEN [close(s1) EXCEPT !.closedBy = IF @ = "" THEN "policy" ELSE @]
           ELSE [s1 EXCEPT !.retryCount = @ + 1,
                           !.retryTimeout = <<retryDelay>>]

\* mutant: scheduling a reconnection moves readyState to CONNECTING at once
scheduleReconnectConnecting(s) ==
  IF s.isClosed THEN s
  ELSE LET retryError == [retryCount |-> s.retryCount,
                          lastError |-> "Connection lost"]
           s1 == [s EXCEPT !.retryTimeout = <<>>,
                           !.asked = IF customRetryLogic # "null"
                                     THEN Append(@, [error |-> retryError,
                                                     retryCount |-> s.retryCount])
                                     ELSE @]
       IN  IF ~shouldRetry(s1, retryError)
           THEN [close(s1) EXCEPT !.closedBy = IF @ = "" THEN "policy" ELSE @]
           ELSE [s1 EXCEPT !.retryCount = @ + 1,
                           !.readyState = CONNECTING,
                           !.retryTimeout = <<s1.currentRetryDelay>>]

scheduleReconnect(s) ==
  IF s.isClosed THEN s
  ELSE LET retryError == [retryCount |-> s.retryCount,
                          lastError |-> "Connection lost"]
           s1 == [s EXCEPT !.retryTimeout = <<>>,
                           !.asked = IF customRetryLogic # "null"
                                     THEN Append(@, [error |-> retryError,
                                                     retryCount |-> s.retryCount])
                                     ELSE @]
       IN  IF ~shouldRetry(s1, retryError)
           THEN [close(s1) EXCEPT !.closedBy = IF @ = "" THEN "policy" ELSE @]
           ELSE [s1 EXCEPT !.retryCount = @ + 1,
                           !.retryTimeout = <<s1.currentRetryDelay>>]

\* ------------------------------------------------------------- connect
\* mutant: a reconnection starts from a fresh resumption state
connectForgetsId(s) ==
  [s EXCEPT !.readyState = CONNECTING,
            !.requests = @ + 1,
            !.abortController = s.requests + 1,
            !.lastHeader = Null,
            !.fetchState = "inflight"]

\* the Last-Event-ID header buildFetchOptions puts on the request
buildFetchOptions(s) == IF s.lastEventId # Null THEN s.lastEventId ELSE Null

connect(s) ==
  [s EXCEPT !.readyState = CONNECTING,
            !.requests = @ + 1,
            !.abortController = s.requests + 1,
            !.lastHeader = buildFetchOptions(s),
            !.fetchState = "inflight"]

\* .catch(error => ...) of the fetch chain
onFetchError(s) ==
  IF s.isClosed THEN s
  ELSE LET s1 == dispatchEvent(s, ERROR, <<"E">>, Null)
       IN  IF s1.thrown THEN s1 ELSE scheduleReconnect(s1)

\* .catch(error => ...) of reader.read()
onReadError(s) ==
  IF s.isClosed THEN s
  ELSE LET s1 == dispatchEvent(s, ERROR, <<"E">>, Null)
       IN  IF s1.thrown THEN s1 ELSE scheduleReconnect(s1)

\* mutant: id and retry fields take effect only in a frame that is dispatched
processFrameDataOnly(s, eventData) ==
  IF trim(eventData) = <<>> THEN s
  ELSE LET p == parseSSEEvent(eventData)
           s1 == [s EXCEPT !.lastEventId = IF p.eventId # Null THEN p.eventId
                                           ELSE @,
                           !.currentRetryDelay = IF p.retry # <<>> THEN p.retry[1]
                                                 ELSE @,
                           !.idWritten = IF p.eventId # Null THEN p.eventId ELSE @,
                           !.retryDirective = IF p.retry # <<>> THEN p.retry ELSE @]
       IN  IF p.eventDataString # <<>>
           THEN dispatchEvent(s1, p.eventName, p.eventDataString, p.eventId)
           ELSE s

\* one complete frame taken from the buffer by the read loop
processFrame(s, eventData) ==
  IF trim(eventData) = <<>> THEN s
  ELSE LET p == parseSSEEvent(eventData)
           s1 == [s EXCEPT !.lastEventId = IF p.eventId # Null THEN p.eventId
                                           ELSE @,
                           !.currentRetryDelay = IF p.retry # <<>> THEN p.retry[1]
                                                 ELSE @,
                           !.idWritten = IF p.eventId # Null THEN p.eventId ELSE @,
                           !.retryDirective = IF p.retry # <<>> THEN p.retry ELSE @]
       IN  IF p.eventDataString # <<>>
           THEN dispatchEvent(s1, p.eventName, p.eventDataString, p.eventId)
           ELSE s1

\* while (boundary !== -1) { ... }: an exception leaves the loop
RECURSIVE drain(_)
drain(s) ==
  LET boundary == indexOfBoundary(s.buffer)
  IN  IF s.thrown \/ boundary = -1 THEN s
      ELSE drain(processFrame([s EXCEPT !.buffer = sliceFrom(@, boundary + 2)],
                              slice(s.buffer, 0, boundary)))

\* mutant: the read callback parses each chunk on its own
onChunkAlone(s, chunk) ==
  LET s1 == drain([s EXCEPT !.buffer = chunk])
  IN  IF s1.thrown
      THEN onReadError([s1 EXCEPT !.thrown = FALSE, !.readPending = 0])
      ELSE s1

\* the callback of reader.read() for a chunk: fill, drain, read() again
onChunk(s, chunk) ==
  LET s1 == drain([s EXCEPT !.buffer = @ \o chunk])
  IN  IF s1.thrown
      THEN onReadError([s1 EXCEPT !.thrown = FALSE, !.readPending = 0])
      ELSE s1

\* the callback of reader.read() for { done: true }
onDone(s) ==
  LET s1 == [s EXCEPT !.readPending = 0]
  IN  IF ~s1.isClosed THEN scheduleReconnect(s1) ELSE s1

\* mutant: a success response leaves the retry counter as it is
onResponseKeepsCount(s, status) ==
  LET s0 == [s EXCEPT !.fetchState = "none"]
  IN  IF ~(status >= 200 /\ status <= 299) THEN onFetchError(s0)
      ELSE LET s1 == [s0 EXCEPT !.openStreams = @ \cup {s.requests},
                                !.readyState = OPEN,
                                !.everOpened = TRUE]
               s2 == dispatchEvent(s1, OPENEV, Null, Null)
           IN  IF s2.thrown THEN onFetchError([s2 EXCEPT !.thrown = FALSE])
               ELSE [s2 EXCEPT !.reader = s.requests,
                               !.buffer = <<>>,
                               !.readPending = s.requests]

\* mutant: the read loop of a new response goes on with the old buffer
onResponseKeepsBuffer(s, status) ==
  LET s0 == [s EXCEPT !.fetchState = "none"]
  IN  IF ~(status >= 200 /\ status <= 299) THEN onFetchError(s0)
      ELSE LET s1 == [s0 EXCEPT !.openStreams = @ \cup {s.requests},
                                !.readyState = OPEN,
                                !.retryCount = 0,
                                !.everOpened = TRUE]
               s2 == dispatchEvent(s1, OPENEV, Null, Null)
           IN  IF s2.thrown THEN onFetchError([s2 EXCEPT !.thrown = FALSE])
               ELSE [s2 EXCEPT !.reader = s.requests,
                               !.readPending = s.requests]

\* .then(response => ...) of fetch(): status is the response's status
onResponse(s, status) ==
  LET s0 == [s EXCEPT !.fetchState = "none"]
  IN  IF ~(status >= 200 /\ status <= 299) THEN onFetchError(s0)
      ELSE LET s1 == [s0 EXCEPT !.openStreams = @ \cup {s.requests},
                                !.readyState = OPEN,
                                !.retryCount = 0,
                                !.everOpened = TRUE]
               s2 == dispatchEvent(s1, OPENEV, Null, Null)
           IN  IF s2.thrown THEN onFetchError([s2 EXCEPT !.thrown = FALSE])
               ELSE [s2 EXCEPT !.reader = s.requests,
                               !.buffer = <<>>,
                               !.readPending = s.requests]

\* ------------------------------------------------------------ inputs
MaxRetriesChoices == (0..MaxRetriesBound) \cup {Infinity}
CustomChoices == {"null", "always"}
Statuses == {200, 404, 503}
\* registrations the caller makes: <<event type, what the callback does>>
ListenerChoices == {<<MESSAGE, "ok">>, <<MESSAGE, "throw">>, <<MESSAGE, "close">>,
                    <<ERROR, "throw">>, <<OPENEV, "throw">>}
EventIds == {<<"7">>}                \* arguments of setLastEventId

\* chunks the server sends: whole frames
FrameIdData == ID \o <<":"," ","1">> \o NL \o DATA \o <<":"," ","a">> \o NL \o NL
FrameIdRetry == ID \o <<":"," ","2">> \o NL \o RETRY \o <<":"," ","5">> \o NL \o NL
FrameTwo == DATA \o <<":"," ","a">> \o NL \o NL \o DATA \o <<":"," ","b">> \o NL \o NL
Chunks == {FrameIdData, FrameIdRetry, FrameTwo}

\* number of registrations in a registry
RECURSIVE registrations(_)
registrations(l) ==
  IF DOMAIN l = {} THEN 0
  ELSE LET t == CHOOSE t \in DOMAIN l : TRUE
       IN  Len(l[t]) + registrations([u \in DOMAIN l \ {t} |-> l[u]])

RECURSIVE without(_, _)
without(cbs, cb) ==
  IF cbs = <<>> THEN <<>>
  ELSE (IF Head(cbs) = cb THEN <<>> ELSE <<Head(cbs)>>) \o without(Tail(cbs), cb)

addEventListener(s, event, callback) ==
  [s EXCEPT !.listeners =
     IF event \in DOMAIN @
     THEN [@ EXCEPT ![event] = Append(@, callback)]
     ELSE [t \in DOMAIN @ \cup {event} |->
             IF t = event THEN <<callback>> ELSE @[t]]]

removeEventListener(s, event, callback) ==
  IF event \notin DOMAIN s.listeners THEN s
  ELSE LET rest == without(s.listeners[event], callback)
       IN  [s EXCEPT !.listeners =
              IF rest = <<>> THEN [t \in DOMAIN @ \ {event} |-> @[t]]
              ELSE [@ EXCEPT ![event] = rest]]

\* ------------------------------------------------------------- steps
\* fetchSSE(url, options): the closure's initial values, then connect()
Init ==
  /\ maxRetries \in MaxRetriesChoices
  /\ customRetryLogic \in CustomChoices
  /\ readyState = CONNECTING
  /\ isClosed = FALSE
  /\ retryCount = 0
  /\ lastEventId = Null
  /\ currentRetryDelay = retryDelay
  /\ retryTimeout = <<>>
  /\ abortController = 1
  /\ reader = 0
  /\ listeners = NoListeners
  /\ onmessage = "null" /\ onerror = "null" /\ onopen = "null"
  /\ buffer = <<>>
  /\ fetchState = "inflight"
  /\ requests = 1
  /\ lastHeader = Null
  /\ openStreams = {}
  /\ readPending = 0
  /\ out = <<>>
  /\ thrown = FALSE
  /\ closedBy = ""
  /\ everOpened = FALSE
  /\ reclosed = FALSE
  /\ idWritten = Null
  /\ retryDirective = <<>>
  /\ asked = <<>>
  /\ chunkIn = <<>>
  /\ streamIn = <<>>

\* the caller calls sse.close()
Close ==
  Step([close(St) EXCEPT !.closedBy = IF @ = "" THEN "caller" ELSE @,
                            !.reclosed = @ \/ isClosed])

\* the caller calls sse.setLastEventId(id)
SetLastEventId(id) ==
  /\ ~isClosed /\ lastEventId # id
  /\ Step([St EXCEPT !.lastEventId = id, !.idWritten = id])

\* the caller calls sse.addEventListener(event, callback); registrations are
\* made in the turn that created the connection, before the first response
AddEventListener(event, callback) ==
  /\ ~isClosed /\ requests = 1 /\ fetchState = "inflight"
  /\ registrations(listeners) < MaxListeners
  /\ Step(addEventListener(St, event, callback))

\* the caller calls sse.removeEventListener(event, callback)
RemoveEventListener(event, callback) ==
  /\ event \in DOMAIN listeners
  /\ Step(removeEventListener(St, event, callback))

\* the caller assigns the three primary handlers in one turn
AssignHandlers ==
  /\ ~isClosed /\ onmessage = "null"
  /\ Step([St EXCEPT !.onmessage = "ok", !.onerror = "ok", !.onopen = "ok"])

\* the fetch promise resolves with a response
FetchResolve(status) ==
  /\ fetchState = "inflight"
  /\ Step(onResponse(St, status))

\* the fetch promise rejects: a network error, or AbortError after abort()
FetchReject ==
  /\ fetchState \in {"inflight", "aborted"}
  /\ Step(onFetchError([St EXCEPT !.fetchState = "none"]))

\* the pending read resolves with a chunk
ReadChunk(chunk) ==
  /\ readPending # 0 /\ readPending \in openStreams
  /\ Becomes(onChunk(St, chunk))
  /\ chunkIn' = chunk
  /\ UNCHANGED streamIn

\* the server ends the stream: the pending read resolves with done
StreamEnd ==
  /\ readPending # 0 /\ readPending \in openStreams
  /\ Step(onDone([St EXCEPT !.openStreams = @ \ {readPending}]))

\* the stream fails: the pending read rejects
StreamError ==
  /\ readPending # 0 /\ readPending \in openStreams
  /\ Step(onReadError([St EXCEPT !.openStreams = @ \ {readPending},
                                    !.readPending = 0]))

\* a read pending on a cancelled or aborted stream settles: done, or AbortError
ReadCancelled ==
  /\ readPending # 0 /\ readPending \notin openStreams
  /\ \/ Step(onDone(St))
     \/ Step(onReadError([St EXCEPT !.readPending = 0]))

\* the server ends a response body nobody reads
UnreadStreamEnd(k) ==
  /\ k \in openStreams /\ k # readPending
  /\ Step([St EXCEPT !.openStreams = @ \ {k}])

\* the reconnection timer fires
TimerFire ==
  /\ retryTimeout # <<>>
  /\ requests < MaxRequests
  /\ LET s == [St EXCEPT !.retryTimeout = <<>>]
     IN  Step(IF ~s.isClosed THEN connect(s) ELSE s)

Next ==
  \/ Close
  \/ \E id \in EventIds : SetLastEventId(id)
  \/ \E l \in ListenerChoices : AddEventListener(l[1], l[2])
  \/ \E l \in ListenerChoices : RemoveEventListener(l[1], l[2])
  \/ AssignHandlers
  \/ \E status \in Statuses : FetchResolve(status)
  \/ FetchReject
  \/ \E chunk \in Chunks : ReadChunk(chunk)
  \/ StreamEnd
  \/ StreamError
  \/ ReadCancelled
  \/ \E k \in 1..MaxRequests : UnreadStreamEnd(k)
  \/ TimerFire

Spec == Init /\ [][Next]_vars

\* ------------------------------------------- one frame on an open stream
NOTICE == <<"n","o","t","i","c","e">>

\* lines a generated frame is made of
LineChoices ==
  { DATA \o <<":"," ","a">>, DATA \o <<":"," ","b">>, DATA \o <<":">>,
    ID \o <<":"," ","1">>, EVENT \o <<":"," ">> \o NOTICE, <<":","c">>,
    RETRY \o <<":"," ","5">> }

GenFrames == UNION { [1..n -> LineChoices] : n \in 1..MaxLines }

RECURSIVE joinLines(_)
joinLines(lines) ==
  IF Len(lines) = 1 THEN lines[1]
  ELSE lines[1] \o NL \o joinLines(Tail(lines))

\* the first response is OPEN and being read; the caller listens to message
\* (primary handler) and to the named event notice
InitOpen ==
  /\ maxRetries = Infinity
  /\ customRetryLogic = "null"
  /\ readyState = OPEN
  /\ isClosed = FALSE
  /\ retryCount = 0
  /\ lastEventId = Null
  /\ currentRetryDelay = retryDelay
  /\ retryTimeout = <<>>
  /\ abortController = 1
  /\ reader = 1
  /\ listeners = [t \in {NOTICE} |-> <<"ok">>]
  /\ onmessage = "ok" /\ onerror = "ok" /\ onopen = "ok"
  /\ buffer = <<>>
  /\ fetchState = "none"
  /\ requests = 1
  /\ lastHeader = Null
  /\ openStreams = {1}
  /\ readPending = 1
  /\ out = <<>>
  /\ thrown = FALSE
  /\ closedBy = ""
  /\ everOpened = TRUE
  /\ reclosed = FALSE
  /\ idWritten = Null
  /\ retryDirective = <<>>
  /\ asked = <<>>
  /\ chunkIn = <<>>
  /\ streamIn = <<>>

\* the server sends one frame, terminated by a blank line, in one chunk
NextFrame ==
  \E lines \in GenFrames :
    chunkIn = <<>> /\ ReadChunk(joinLines(lines) \o NL \o NL)

SpecParse == InitOpen /\ [][NextFrame]_vars

\* lines whose value has more white space than the one space after the colon
SpacedLineChoices ==
  { DATA \o <<":"," ","a">>, DATA \o <<":"," "," ","a">>,
    DATA \o <<":"," ","a"," ">>, DATA \o <<":"," ","\t","b">>,
    ID \o <<":"," "," ","1">>, EVENT \o <<":"," ">> \o NOTICE \o <<" ">> }

GenSpacedFrames == UNION { [1..n -> SpacedLineChoices] : n \in 1..MaxLines }

\* the server sends one frame of such lines in one chunk
NextSpacedFrame ==
  \E lines \in GenSpacedFrames :
    chunkIn = <<>> /\ ReadChunk(joinLines(lines) \o NL \o NL)

SpecSpaced == InitOpen /\ [][NextSpacedFrame]_vars

\* ----------------------------------- a response body delivered in chunks
\* texts a response body consists of: frames with and without id, a frame
\* of id and retry only followed by an unterminated frame, a named event
\* with two data lines followed by a comment frame
StreamPartial == FrameIdRetry \o DATA \o <<":"," ","b">> \o NL
StreamNamed ==
  EVENT \o <<":"," ">> \o NOTICE \o NL \o DATA \o <<":"," ","a">> \o NL
    \o DATA \o <<":"," ","b">> \o NL \o NL \o <<":","c">> \o NL \o NL
Streams == {FrameIdData \o FrameTwo, StreamPartial, StreamNamed}

isPrefix(p, s) == Len(p) <= Len(s) /\ SubSeq(s, 1, Len(p)) = p

\* the pending read resolves with the next chunk of the body: any number of
\* the characters that follow those already delivered
StreamChunk(chunk) ==
  /\ readPending # 0 /\ readPending \in openStreams
  /\ chunk # <<>>
  /\ \E text \in Streams : isPrefix(streamIn \o chunk, text)
  /\ Becomes(onChunk(St, chunk))
  /\ chunkIn' = chunk
  /\ streamIn' = streamIn \o chunk

\* the request of a reconnection is answered with a success response
StreamOpen ==
  /\ fetchState = "inflight"
  /\ Becomes(onResponse(St, 200))
  /\ chunkIn' = <<>>
  /\ streamIn' = <<>>

NextStream ==
  \/ \E text \in Streams : \E j \in (Len(streamIn) + 1)..Len(text) :
       StreamChunk(SubSeq(text, Len(streamIn) + 1, j))
  \/ StreamEnd
  \/ StreamError
  \/ TimerFire
  \/ StreamOpen

SpecStream == InitOpen /\ [][NextStream]_vars
\* ------------------------------------------------------------ claims
\* a response or a connection error fails the current attempt
FetchFails(status) == FetchResolve(status) \/ FetchReject

\* C1: under the default retry policy a response with a terminal client-error
\* status (here 404) never triggers a reconnection: after the response is
\* handled no reconnection timer is armed and the connection is CLOSED.
C1_TerminalStatusNeverRetried ==
  [][(customRetryLogic = "null" /\ ~isClosed /\ FetchResolve(404))
       => (retryTimeout' = <<>> /\ readyState' = CLOSED)]_vars

\* C2: under the default policy with a finite maxRetries = N, while no attempt
\* has reached OPEN, every failure with retryCount < N arms a reconnection and
\* counts it, the failure at retryCount = N closes the connection, and a
\* connection closed by the policy has issued exactly N + 1 requests.
C2_RetriesUntilMaxThenClosed ==
  [][(/\ customRetryLogic = "null" /\ maxRetries # Infinity
      /\ ~everOpened /\ ~isClosed
      /\ FetchFails(503)
      /\ closedBy' # "caller")
       => /\ retryCount < maxRetries
             => (retryTimeout' # <<>> /\ retryCount' = retryCount + 1)
          /\ retryCount = maxRetries
             => (readyState' = CLOSED /\ requests' = maxRetries + 1)]_vars

\* C3: with a customRetryLogic that always returns true, whatever maxRetries
\* is, the connection is CLOSED only by a close() of the caller, never by the
\* retry policy.
C3_CustomAlwaysNeverClosesOnFailure ==
  customRetryLogic = "always"
    => /\ closedBy # "policy"
       /\ (readyState = CLOSED => closedBy = "caller")

\* C3 witness: beyond a maxRetries of 0, retries were scheduled after a failed
\* request and after a stream that ended, and the connection is not closed
C3_Witness ==
  /\ customRetryLogic = "always" /\ maxRetries = 0
  /\ everOpened /\ retryCount >= 2 /\ requests >= 3 /\ ~isClosed

\* the closure variables and the transport, without the records of the model
program == <<readyState, isClosed, retryCount, lastEventId, currentRetryDelay,
             retryTimeout, abortController, reader, listeners, onmessage,
             onerror, onopen, buffer, fetchState, requests, lastHeader,
             openStreams, readPending>>

\* C4: every request carries as Last-Event-ID the id most recently written by
\* a frame's id field or by setLastEventId (no header while none is set):
\* nothing but those two writers changes the stored id, and a request built
\* by a reconnection sends exactly it.
C4_RequestCarriesLatestId ==
  [][/\ lastEventId' = idWritten'
     /\ requests' # requests => lastHeader' = idWritten]_vars

\* C4 witness: a request issued by a second reconnection carries id 2, the id
\* of a frame
C4_Witness ==
  /\ requests >= 3 /\ lastHeader = <<"2">> /\ fetchState = "inflight"

\* the delay in force: the latest retry directive, else the configured delay
ActiveDelay(directive) == IF directive # <<>> THEN directive[1] ELSE retryDelay

\* C5: every reconnection is scheduled with the delay of the latest numeric
\* retry directive received, and with the configured retryDelay only while no
\* directive has been received; nothing but a directive changes the delay.
C5_ServerRetryOverridesDelay ==
  [][/\ currentRetryDelay' = ActiveDelay(retryDirective')
     /\ (retryTimeout = <<>> /\ retryTimeout' # <<>>)
          => retryTimeout' = <<ActiveDelay(retryDirective')>>]_vars

\* C5 witness: after two reconnections a third one is armed with the 5 of the
\* directive retry: 5, the frame received last (id 1) having no retry field
C5_Witness ==
  /\ retryTimeout = <<5>> /\ requests >= 3 /\ lastEventId = <<"1">>
  /\ chunkIn = FrameIdData

\* C6: close() on a closed connection changes nothing and raises nothing, and
\* any close() leaves readyState CLOSED, no timer, no listener, and the last
\* event id and the retry counter as they were.
C6_CloseIdempotent ==
  [][Close => /\ readyState' = CLOSED /\ retryTimeout' = <<>>
              /\ listeners' = NoListeners /\ ~thrown'
              /\ lastEventId' = lastEventId /\ retryCount' = retryCount
              /\ isClosed => UNCHANGED program]_vars

\* C6 witness: the caller has called close() on a closed connection
C6_Witness == reclosed /\ closedBy = "caller" /\ ~thrown

\* C7: once readyState is CLOSED it stays CLOSED, no request is issued and no
\* timer is armed, whatever was pending when close() was called.
C7_ClosedIsTerminal ==
  [][readyState = CLOSED
       => /\ readyState' = CLOSED /\ isClosed'
          /\ requests' = requests /\ retryTimeout' = <<>>]_vars

\* C7 witness: the caller closed while a reconnection request was in flight:
\* the request is aborted and its rejection is still to be handled
C7_Witness ==
  /\ readyState = CLOSED /\ closedBy = "caller"
  /\ requests >= 2 /\ fetchState = "aborted"

\* C8: once readyState is CLOSED no callback is invoked: no listener and no
\* primary handler is given an event while the connection is CLOSED.
C8_NoEventAfterClosed ==
  \A i \in 1..Len(out) : out[i].readyState # CLOSED

\* requests not yet settled: the fetch in flight and the open response bodies
Outstanding ==
  (IF fetchState = "inflight" THEN 1 ELSE 0) + Cardinality(openStreams)

\* C9: a connection has at most one outstanding request at any time.
C9_AtMostOneOutstanding == Outstanding <= 1

\* the lines of the one frame of chunkIn
FrameLines == split(slice(chunkIn, 0, Len(chunkIn) - 2))

\* the value of a line: the text after the first colon, less one leading space
valueOfLine(line) ==
  LET v == sliceFrom(line, indexOf(line, ":") + 1)
  IN  IF v # <<>> /\ Head(v) = " " THEN Tail(v) ELSE v

isDataLine(line) ==
  indexOf(line, ":") # -1 /\ slice(line, 0, indexOf(line, ":")) = DATA

\* the values of the data lines of a frame, joined by one line break each
RECURSIVE joinedData(_)
joinedData(lines) ==
  IF lines = <<>> THEN <<>>
  ELSE LET rest == SelectSeq(Tail(lines), isDataLine)
       IN  IF ~isDataLine(Head(lines)) THEN joinedData(Tail(lines))
           ELSE valueOfLine(Head(lines))
                \o (IF rest # <<>> THEN NL \o joinedData(Tail(lines)) ELSE <<>>)

\* C10: the event dispatched for a frame with data lines has as payload the
\* values of the data lines, in order, joined by a single line break, also
\* when some of the values are empty.
C10_PayloadIsDataLinesJoined ==
  (chunkIn # <<>> /\ SelectSeq(FrameLines, isDataLine) # <<>>)
    => \A i \in 1..Len(out) : out[i].data = joinedData(FrameLines)

\* the line has the field name key before its first colon
hasField(line, key) ==
  indexOf(line, ":") # -1 /\ slice(line, 0, indexOf(line, ":")) = key

\* the value of the last line of the frame with field name key: <<v>>, or
\* <<>> when the frame has no such line
lastOf(lines, key) ==
  LET ls == SelectSeq(lines, LAMBDA l : hasField(l, key))
  IN  IF ls = <<>> THEN <<>> ELSE <<valueOfLine(ls[Len(ls)])>>

\* C11: a complete frame without data lines dispatches nothing, and leaves
\* the last event id at the value of its last id line and the retry delay at
\* the number of its last retry line; with neither line (only comments) the
\* id and the delay stay as they were before the frame.
C11_NoDataFrameUpdatesWithoutDispatch ==
  (chunkIn # <<>> /\ SelectSeq(FrameLines, isDataLine) = <<>>)
    => /\ out = <<>>
       /\ lastEventId = (IF lastOf(FrameLines, ID) = <<>> THEN Null
                         ELSE lastOf(FrameLines, ID)[1])
       /\ currentRetryDelay =
            (IF lastOf(FrameLines, RETRY) = <<>> THEN retryDelay
             ELSE digitsValue(lastOf(FrameLines, RETRY)[1], 0))

\* C11 witness: a frame of an id, a retry and a comment line was read: id and
\* delay are set and nothing was dispatched
C11_Witness ==
  /\ chunkIn # <<>> /\ SelectSeq(FrameLines, isDataLine) = <<>>
  /\ lastOf(FrameLines, ID) = << <<"1">> >>
  /\ lastOf(FrameLines, RETRY) = << <<"5">> >>
  /\ \E i \in 1..Len(FrameLines) : FrameLines[i] = <<":","c">>
  /\ lastEventId = <<"1">> /\ currentRetryDelay = 5 /\ out = <<>>

\* the primary handler assigned for an event type, "null" if none
primaryHandler(type) ==
  CASE type = MESSAGE -> onmessage
    [] type = ERROR -> onerror
    [] type = OPENEV -> onopen
    [] OTHER -> "null"

\* C12: an exception raised by a listener does not stop the dispatch: when a
\* listener has raised and a primary handler is assigned for the event's
\* type, the handler is invoked with that event after the listener.
C12_ListenerExceptionIsolated ==
  \A i \in 1..Len(out) :
    (out[i].cb = "throw" /\ primaryHandler(out[i].type) # "null")
      => \E j \in (i+1)..Len(out) :
           /\ out[j].type = out[i].type /\ out[j].data = out[i].data
           /\ out[j].cb = primaryHandler(out[i].type)

\* C13: customRetryLogic is called on a failure with that failure's context
\* and the current retry count: when a 404 response fails an attempt (and no
\* listener raises), the function is called once, with the retry count and
\* with an error whose status is 404.
C13_CustomPolicyReceivesStatus ==
  [][(customRetryLogic # "null" /\ ~isClosed /\ FetchResolve(404) /\ ~thrown')
       => /\ Len(asked') = 1
          /\ asked'[1].retryCount = retryCount
          /\ statusOf(asked'[1].error) = 404]_vars

\* C15: the lastEventId attribute of every dispatched message or named event
\* is the connection's last event id at that time, the value getLastEventId()
\* returns during the dispatch, also when the frame has no id field.
C15_EventCarriesConnectionId ==
  \A i \in 1..Len(out) :
    out[i].type \notin {ERROR, OPENEV}
      => out[i].lastEventId = out[i].getLastEventId

\* the events (type, payload, id) given to callbacks, in order
eventsOf(o) == [i \in 1..Len(o) |-> <<o[i].type, o[i].data, o[i].lastEventId>>]

\* the events dispatched when text arrives as one chunk on a fresh response
eventsOfText(text) == eventsOf(onChunk([St EXCEPT !.buffer = <<>>], text).out)

\* C14: the events dispatched for a stream do not depend on how it is split
\* into chunks: after every chunk, the events dispatched so far, in order,
\* are those of the text delivered so far when it arrives as one chunk; so a
\* frame is emitted by the chunk that completes its blank line, and the
\* partial frame before it was kept.
C14_ChunkingInvariant ==
  [][(streamIn' # streamIn /\ isPrefix(streamIn, streamIn'))
       => eventsOfText(streamIn') = eventsOfText(streamIn) \o eventsOf(out')]_vars

\* C14 witness: the second line break of a blank line arrived in a chunk of
\* its own and the event of the stream's third frame (payload b) was emitted
C14_Witness ==
  /\ chunkIn = NL /\ streamIn = FrameIdData \o FrameTwo
  /\ Len(out) = 1 /\ out[1].data = <<"b">> /\ buffer = <<>>

\* C20: the bytes a stream leaves after its last blank line when it ends or
\* fails are discarded: the end dispatches no event but error and changes
\* neither the last event id nor the retry delay, and the first chunk of the
\* next response is parsed as if nothing had been received before it.
C20_PartialFrameDiscarded ==
  [][/\ ((StreamEnd \/ StreamError) /\ buffer # <<>>)
          => /\ \A i \in 1..Len(out') : out'[i].type = ERROR
             /\ lastEventId' = lastEventId
             /\ currentRetryDelay' = currentRetryDelay
     /\ (streamIn = <<>> /\ streamIn' # <<>>)
          => LET alone == onChunk([St EXCEPT !.buffer = <<>>], streamIn')
             IN  /\ out' = alone.out
                 /\ buffer' = alone.buffer
                 /\ lastEventId' = alone.lastEventId
                 /\ currentRetryDelay' = alone.currentRetryDelay]_vars

\* C20 witness: a second response delivered a frame and an unterminated
\* line, then ended: the line is still in the dead buffer, its data was not
\* dispatched, and a reconnection is armed
C20_Witness ==
  /\ requests >= 2 /\ streamIn = StreamPartial
  /\ buffer = DATA \o <<":"," ","b">> \o NL
  /\ readPending = 0 /\ retryTimeout = <<5>> /\ out = <<>>

\* C16: a connection that is not closed is never left idle: a request is in
\* flight, or a response is being read, or a reconnection timer is armed; so
\* after a failure the next request or CLOSED always follows.
C16_NeverIdleUnlessClosed ==
  ~isClosed => \/ fetchState = "inflight"
               \/ readPending # 0
               \/ retryTimeout # <<>>

\* a reconnection is scheduled by the step: a timer is armed
Scheduled == retryTimeout = <<>> /\ retryTimeout' # <<>>

\* C17: the retry counter counts the reconnections scheduled since the last
\* success response: a step changes it only by setting it to zero when a
\* success response opens the connection and by adding one when it schedules
\* a reconnection, and under the default policy it never exceeds maxRetries.
C17_RetryCounter ==
  [][/\ retryCount' = (IF FetchResolve(200) THEN 0 ELSE retryCount)
                        + (IF Scheduled THEN 1 ELSE 0)
     /\ customRetryLogic = "null" => retryCount' <= maxRetries]_vars

\* C17 witness: under the default policy with maxRetries 2 the counter is at
\* 2 with a reconnection armed after four requests, one more than two retries
\* allow: a success response has reset the counter in between
C17_Witness ==
  /\ customRetryLogic = "null" /\ maxRetries = 2 /\ retryCount = 2
  /\ requests = 4 /\ everOpened /\ retryTimeout # <<>>

\* C19: scheduling a reconnection leaves readyState as it is: OPEN after a
\* stream that ended or failed, CONNECTING after a request that failed; while
\* the timer stays armed readyState does not change, and it becomes
\* CONNECTING only in a step that issues a request, as the timer's does.
C19_ReadyStateDuringDelay ==
  [][/\ ((StreamEnd \/ StreamError) /\ Scheduled) => readyState' = OPEN
     /\ ((FetchFails(503) \/ FetchFails(404)) /\ Scheduled)
          => readyState' = CONNECTING
     /\ (retryTimeout # <<>> /\ retryTimeout' # <<>>) => readyState' = readyState
     /\ (TimerFire /\ ~isClosed)
          => (readyState' = CONNECTING /\ requests' = requests + 1)
     /\ (readyState # CONNECTING /\ readyState' = CONNECTING)
          => requests' = requests + 1]_vars

\* C19 witness: readyState is OPEN during the delay of a reconnection, with
\* no request in flight and no response body open or being read
C19_Witness ==
  /\ readyState = OPEN /\ retryTimeout # <<>> /\ ~isClosed
  /\ fetchState = "none" /\ openStreams = {} /\ readPending = 0

\* C18: the value of a field is the text after the first colon less exactly
\* one leading space: the event dispatched for a frame has as payload the
\* values of its data lines so defined, as id that of its last id line
\* and as type that of its last event line, further leading spaces and
\* trailing white space included.
C18_OneLeadingSpaceRemoved ==
  chunkIn # <<>>
    => \A i \in 1..Len(out) :
         /\ out[i].data = joinedData(FrameLines)
         /\ out[i].lastEventId = (IF lastOf(FrameLines, ID) = <<>> THEN Null
                                  ELSE lastOf(FrameLines, ID)[1])
         /\ out[i].type = (IF lastOf(FrameLines, EVENT) = <<>> THEN MESSAGE
                           ELSE lastOf(FrameLines, EVENT)[1])
====
